---- MODULE Spec2Model ----
(***************************************************************************)
(* Segmentation-tracking evaluation of scalabel (scalabel/eval/mots.py):   *)
(* parse_objects, acc_single_video_mots and evaluate_seg_track.            *)
(*                                                                         *)
(* Masks are sets of pixels, so that IoU and IoF are exact ratios of       *)
(* cardinalities; distances are exact rationals scaled by Scale.  The      *)
(* accumulator (motmetrics) and the metric tables (scalabel/eval/mot.py)   *)
(* are outside src/ and are modelled from sections 4.3 and 4.4 of the      *)
(* specification.                                                          *)
(***************************************************************************)
EXTENDS Integers, Sequences, FiniteSets, TLC

VARIABLES
    gts,                 \* evaluate_seg_track argument: list of GT videos
    results,             \* evaluate_seg_track argument: list of predicted videos
    iou_thr,             \* caller's IoU threshold, in percent
    ignore_iof_thr,      \* caller's ignore IoF threshold, in percent
    ignore_unknown_cats, \* caller's unknown-category policy
    image_size,          \* config.imageSize: None or a size
    nproc,               \* worker count
    pc,                  \* position in evaluate_seg_track
    err,                 \* the exception that ended the run, or "none"
    vi,                  \* index of the video whose task runs
    task,                \* the running acc_single_video_mots call
    video_accs,          \* accumulators returned by the finished tasks
    result,              \* the TrackResult, or None
    last                 \* what the latest frame iteration did (history)

vars == <<gts, results, iou_thr, ignore_iof_thr, ignore_unknown_cats,
          image_size, nproc, pc, err, vi, task, video_accs, result, last>>

inputs == <<gts, results, iou_thr, ignore_iof_thr, ignore_unknown_cats,
            image_size, nproc>>

----------------------------------------------------------------------------
(* Values *)

\* Python's None, for the sizes; an absent mask or polygon is the empty set and
\* an absent frameIndex is NoIndex.
None == "None"

NoMask == {}

NoIndex == -1

\* The pixels of the image; a mask (decoded RLE) is a non-empty set of them.
Pixels == {1, 2, 3}

RECURSIVE Factorial(_)
Factorial(n) == IF n <= 1 THEN 1 ELSE n * Factorial(n - 1)

\* Distances are stored multiplied by Scale, which every union size divides.
Scale == Factorial(Cardinality(Pixels))

\* np.nan in a distance matrix
NaN == -1

\* The leaf categories of the config (class_names of evaluate_seg_track).
class_names == <<"car", "bus">>

num_classes == Len(class_names)

\* Default of the iou_thr parameter of acc_single_video_mots, in percent.
DefaultIouThr == 50

RECURSIVE SeqSum(_)
SeqSum(s) == IF s = <<>> THEN 0 ELSE Head(s) + SeqSum(Tail(s))

Range(s) == {s[i] : i \in DOMAIN s}

\* classes.index(category): 0-based position of the first occurrence
ClassIndex(classes, category) ==
    (CHOOSE i \in DOMAIN classes :
        classes[i] = category /\ \A j \in 1..(i - 1) : classes[j] # category) - 1

----------------------------------------------------------------------------
(* parse_objects *)

\* check_crowd(obj) or check_ignored(obj)
CheckCrowdOrIgnored(obj) == obj.attr \in {"crowd", "ignored"}

EmptyParse == [err |-> "ok", rles |-> <<>>, labels |-> <<>>, ids |-> <<>>,
               ignore_rles |-> <<>>]

\* poly2ds_to_mask followed by mask_to_rle: the pixels the polygons cover.
\* A polygon is given by the set of pixel centres it encloses.
mask_to_rle(poly2d) == {px \in Pixels : px \in poly2d}

\* ParseObject with the category looked at before the mask: an object without
\* a mask and of unknown category raises.
ParseObject_CategoryFirst(acc, obj, classes, ign_unknown, img_size) ==
    IF obj.category \notin Range(classes)
    THEN IF ~ign_unknown THEN [acc EXCEPT !.err = "KeyError"] ELSE acc
    ELSE IF obj.rle = NoMask /\ obj.poly2d = NoMask
    THEN acc
    ELSE IF obj.rle = NoMask /\ img_size = None
    THEN [acc EXCEPT !.err = "AssertionError"]
    ELSE LET rle == IF obj.rle # NoMask THEN obj.rle ELSE mask_to_rle(obj.poly2d)
         IN IF CheckCrowdOrIgnored(obj)
            THEN [acc EXCEPT !.ignore_rles = Append(@, rle)]
            ELSE [acc EXCEPT
                     !.rles = Append(@, rle),
                     !.labels = Append(@, ClassIndex(classes, obj.category)),
                     !.ids = Append(@, obj.id)]

\* One iteration of the loop over objects.
ParseObject(acc, obj, classes, ign_unknown, img_size) ==
    IF obj.rle = NoMask /\ obj.poly2d = NoMask
    THEN acc
    ELSE IF obj.rle = NoMask /\ img_size = None
    THEN [acc EXCEPT !.err = "AssertionError"]
    ELSE LET rle == IF obj.rle # NoMask THEN obj.rle ELSE mask_to_rle(obj.poly2d)
         IN IF obj.category \in Range(classes)
            THEN IF CheckCrowdOrIgnored(obj)
                 THEN [acc EXCEPT !.ignore_rles = Append(@, rle)]
                 ELSE [acc EXCEPT
                          !.rles = Append(@, rle),
                          !.labels = Append(@, ClassIndex(classes, obj.category)),
                          !.ids = Append(@, obj.id)]
            ELSE IF ~ign_unknown
                 THEN [acc EXCEPT !.err = "KeyError"]
                 ELSE acc

RECURSIVE ParseLoop(_, _, _, _, _)
ParseLoop(acc, objects, classes, ign_unknown, img_size) ==
    IF objects = <<>> \/ acc.err # "ok" THEN acc
    ELSE ParseLoop(ParseObject(acc, Head(objects), classes, ign_unknown, img_size),
                   Tail(objects), classes, ign_unknown, img_size)

parse_objects(objects, classes, ign_unknown, img_size) ==
    ParseLoop(EmptyParse, objects, classes, ign_unknown, img_size)

----------------------------------------------------------------------------
(* Frames of one video *)

get_frame_index(frame) == IF frame.frameIndex # NoIndex THEN frame.frameIndex ELSE 0

\* gt.labels if gt.labels is not None else []: an absent list is the empty one
FrameLabels(frame) == frame.labels

\* x placed behind every element whose key is not greater (sorted is stable)
RECURSIVE InsertFrame(_, _)
InsertFrame(s, x) ==
    IF s = <<>> THEN <<x>>
    ELSE IF get_frame_index(s[Len(s)]) <= get_frame_index(x)
         THEN Append(s, x)
         ELSE Append(InsertFrame(SubSeq(s, 1, Len(s) - 1), x), s[Len(s)])

\* The frames left in the order given.
SortedFrames_AsGiven(frames) == frames

\* sorted(frames, key=get_frame_index)
RECURSIVE SortedFrames(_)
SortedFrames(frames) ==
    IF frames = <<>> THEN <<>>
    ELSE InsertFrame(SortedFrames(SubSeq(frames, 1, Len(frames) - 1)),
                     frames[Len(frames)])

\* The ids of all labels of the frames.
LabelIds(frames) ==
    UNION {{FrameLabels(frames[k])[j].id : j \in DOMAIN FrameLabels(frames[k])}
           : k \in DOMAIN frames}

\* label_ids_to_int: the labels of a video get the integers 1, 2, ... in the
\* order of their ids, the same integer for the same id in every frame.
IdToInt(ids, id) == 1 + Cardinality({x \in ids : x < id})

label_ids_to_int(frames) ==
    LET ids == LabelIds(frames)
    IN [k \in DOMAIN frames |->
          [frames[k] EXCEPT !.labels =
             [j \in DOMAIN frames[k].labels |->
                [frames[k].labels[j] EXCEPT !.id = IdToInt(ids, @)]]]]

----------------------------------------------------------------------------
(* Cost matrix of one class in one frame *)

\* The positions of the detections of class i (0-based), in order.
RECURSIVE ClassPositions(_, _, _)
ClassPositions(labels, i, from) ==
    IF from > Len(labels) THEN <<>>
    ELSE (IF labels[from] = i THEN <<from>> ELSE <<>>)
         \o ClassPositions(labels, i, from + 1)

Pick(s, positions) == [n \in DOMAIN positions |-> s[positions[n]]]

\* Distance with >= for >: an IoU equal to iou_thr is not admitted.
Distance_BoundaryExcluded(gt_rle, pred_rle, thr) ==
    LET inter == Cardinality(gt_rle \cap pred_rle)
        union == Cardinality(gt_rle \cup pred_rle)
        dist == (Scale * (union - inter)) \div union
    IN IF 100 * dist >= Scale * (100 - thr) THEN NaN ELSE dist

\* Distance 1 - IoU of two masks, times Scale; NaN above 1 - iou_thr.
Distance(gt_rle, pred_rle, thr) ==
    LET inter == Cardinality(gt_rle \cap pred_rle)
        union == Cardinality(gt_rle \cup pred_rle)
        dist == (Scale * (union - inter)) \div union
    IN IF 100 * dist > Scale * (100 - thr) THEN NaN ELSE dist

\* The matrix has its shape even when a side is empty.
Distances(gt_rles_c, pred_rles_c, thr) ==
    [ng |-> Len(gt_rles_c), np |-> Len(pred_rles_c),
     d |-> [e \in (1..Len(gt_rles_c)) \X (1..Len(pred_rles_c)) |->
              Distance(gt_rles_c[e[1]], pred_rles_c[e[2]], thr)]]

IsFinite(x) == x # NaN

\* Matchings: sets of (row, column) pairs over finite entries, one per row and
\* per column at most.
Matchings(dm) ==
    {M \in SUBSET {e \in DOMAIN dm.d : IsFinite(dm.d[e])} :
        \A e1, e2 \in M : (e1[1] = e2[1] \/ e1[2] = e2[2]) => e1 = e2}

RECURSIVE MatchingCost(_, _)
MatchingCost(dm, M) ==
    IF M = {} THEN 0
    ELSE LET e == CHOOSE x \in M : TRUE
         IN dm.d[e] + MatchingCost(dm, M \ {e})

\* mm.lap.linear_sum_assignment followed by the isfinite test on each pair:
\* missing edges cost more than any sum of finite ones, so a solution has as
\* many finite pairs as possible and, among those, the least total distance.
\* Which of several solutions comes back depends on the solver.
linear_sum_assignment(dm) ==
    LET ms == Matchings(dm)
        most == {M \in ms : \A N \in ms : Cardinality(N) <= Cardinality(M)}
    IN {M \in most : \A N \in most : MatchingCost(dm, M) <= MatchingCost(dm, N)}

----------------------------------------------------------------------------
(* Ignore filter *)

\* np.greater(iofs, ignore_iof_thr).any(axis=1) for one prediction
Ignored(pred_rle, gt_ignores, iof_thr) ==
    \E n \in DOMAIN gt_ignores :
        100 * Cardinality(pred_rle \cap gt_ignores[n]) > iof_thr * Cardinality(pred_rle)

\* ValidInds without the fps mask: an assigned prediction is dropped too.
ValidInds_DropsAssigned(dm, M, pred_rles_c, gt_ignores, iof_thr) ==
    ClassPositions([n \in 1..dm.np |->
                      IF Ignored(pred_rles_c[n], gt_ignores, iof_thr) THEN 0 ELSE 1],
                   1, 1)

\* valid_inds: the columns kept, as their positions in order
ValidInds(dm, M, pred_rles_c, gt_ignores, iof_thr) ==
    LET fps(n) == ~(\E e \in M : e[2] = n)
        keep(n) == ~(fps(n) /\ Ignored(pred_rles_c[n], gt_ignores, iof_thr))
    IN ClassPositions([n \in 1..dm.np |-> IF keep(n) THEN 1 ELSE 0], 1, 1)

\* distances[:, valid_inds]
Columns(dm, valid) ==
    [ng |-> dm.ng, np |-> Len(valid),
     d |-> [e \in (1..dm.ng) \X (1..Len(valid)) |-> dm.d[<<e[1], valid[e[2]]>>]]]

\* Lines 140-157: the outcomes of the filter, one per solution of the
\* assignment.  Without ignore regions or predictions nothing is filtered.
FilterPreds(dm, pred_ids_c, pred_rles_c, gt_ignores, iof_thr) ==
    IF Len(gt_ignores) > 0 /\ Len(pred_rles_c) > 0
    THEN {LET valid == ValidInds(dm, M, pred_rles_c, gt_ignores, iof_thr)
          IN [filtered |-> TRUE, assigned |-> M, valid |-> valid,
              pred_ids |-> Pick(pred_ids_c, valid), dm |-> Columns(dm, valid)]
          : M \in linear_sum_assignment(dm)}
    ELSE {[filtered |-> FALSE, assigned |-> {}, valid |-> [n \in 1..dm.np |-> n],
           pred_ids |-> pred_ids_c, dm |-> dm]}

----------------------------------------------------------------------------
(* Accumulator: one per class and video (section 4.3 of the specification) *)

EmptyAcc == [m |-> <<>>, frames |-> <<>>, nmatch |-> 0, miss |-> 0, fp |-> 0,
             switch |-> 0, dist |-> 0]

\* One frame: M is the minimum-cost matching of the frame's matrix.  m keeps
\* each GT identity's last matched prediction; frames lists the frames given.
AccUpdate(acc, oids, hids, dm, M, key) ==
    LET isSwitch(e) == /\ oids[e[1]] \in DOMAIN acc.m
                       /\ acc.m[oids[e[1]]] # hids[e[2]]
        matched == {oids[e[1]] : e \in M}
    IN [m |-> [o \in DOMAIN acc.m \cup matched |->
                 IF o \in matched
                 THEN hids[(CHOOSE e \in M : oids[e[1]] = o)[2]]
                 ELSE acc.m[o]],
        frames |-> Append(acc.frames, key),
        nmatch |-> acc.nmatch + Cardinality(M),
        miss |-> acc.miss + (dm.ng - Cardinality(M)),
        fp |-> acc.fp + (dm.np - Cardinality(M)),
        switch |-> acc.switch + Cardinality({e \in M : isSwitch(e)}),
        dist |-> acc.dist + MatchingCost(dm, M)]

\* update on an accumulator made anew for the frame.
update_FreshAccumulator(acc, oids, hids, dm, key) ==
    {AccUpdate(EmptyAcc, oids, hids, dm, M, key) : M \in linear_sum_assignment(dm)}

\* accs[i].update(gt_ids_c, pred_ids_c, distances), for each matching the
\* accumulator's solver may return
update(acc, oids, hids, dm, key) ==
    {AccUpdate(acc, oids, hids, dm, M, key) : M \in linear_sum_assignment(dm)}

----------------------------------------------------------------------------
(* One class in one frame: lines 113-159 *)

NoInfo == [ran |-> FALSE, updated |-> FALSE, filtered |-> FALSE, assigned |-> {},
           gt_ids |-> <<>>, gt_rles |-> <<>>, pred_ids |-> <<>>, pred_rles |-> <<>>,
           valid |-> <<>>, passed_ids |-> <<>>,
           dm |-> [ng |-> 0, np |-> 0, d |-> <<>>]]

\* No shape skips the update.
ShapeIsEmpty_Never(dm) == FALSE

\* (0, 0) is the shape for which update is skipped
ShapeIsEmpty(dm) == dm.ng = 0 /\ dm.np = 0

ClassOutcomes(acc, i, gtp, prp, thr, iof_thr, key) ==
    LET gt_inds == ClassPositions(gtp.labels, i, 1)
        pred_inds == ClassPositions(prp.labels, i, 1)
        gt_rles_c == Pick(gtp.rles, gt_inds)
        pred_rles_c == Pick(prp.rles, pred_inds)
        gt_ids_c == Pick(gtp.ids, gt_inds)
        pred_ids_c == Pick(prp.ids, pred_inds)
        distances == Distances(gt_rles_c, pred_rles_c, thr)
        info(f, upd) ==
            [ran |-> TRUE, updated |-> upd, filtered |-> f.filtered,
             assigned |-> f.assigned, gt_ids |-> gt_ids_c, gt_rles |-> gt_rles_c,
             pred_ids |-> pred_ids_c, pred_rles |-> pred_rles_c,
             valid |-> f.valid, passed_ids |-> f.pred_ids, dm |-> f.dm]
    IN IF Len(gt_rles_c) = 0 /\ Len(pred_rles_c) = 0
       THEN {[acc |-> acc, info |-> NoInfo]}
       ELSE UNION {
              IF ShapeIsEmpty(f.dm)
              THEN {[acc |-> acc, info |-> info(f, FALSE)]}
              ELSE {[acc |-> a, info |-> info(f, TRUE)]
                    : a \in update(acc, gt_ids_c, f.pred_ids, f.dm, key)}
              : f \in FilterPreds(distances, pred_ids_c, pred_rles_c,
                                  gtp.ignore_rles, iof_thr)}

\* All sequences with one element of each set of the sequence.
RECURSIVE Product(_)
Product(sets) ==
    IF sets = <<>> THEN {<<>>}
    ELSE {<<x>> \o rest : x \in Head(sets), rest \in Product(Tail(sets))}

----------------------------------------------------------------------------
(* Metric tables: sections 4.3 and 4.4 of the specification *)

\* evaluate_single_class: the totals of the accumulators of one row, merged
MergeAccs(accs) ==
    [FP |-> SeqSum([n \in DOMAIN accs |-> accs[n].fp]),
     FN |-> SeqSum([n \in DOMAIN accs |-> accs[n].miss]),
     IDSw |-> SeqSum([n \in DOMAIN accs |-> accs[n].switch]),
     nmatch |-> SeqSum([n \in DOMAIN accs |-> accs[n].nmatch]),
     dist |-> SeqSum([n \in DOMAIN accs |-> accs[n].dist]),
     GT |-> SeqSum([n \in DOMAIN accs |-> accs[n].nmatch + accs[n].miss])]

\* A rational number n / d, d > 0; the sentinel is -1.
Sentinel == [n |-> -1, d |-> 1]

RatEq(a, b) == a.n * b.d = b.n * a.d

\* MOTA = 1 - (FN + FP + IDSw) / totalGT, in percent
MOTA(row) ==
    IF row.GT = 0 THEN Sentinel
    ELSE [n |-> 100 * (row.GT - (row.FN + row.FP + row.IDSw)), d |-> row.GT]

\* MOTP = 1 - mean match distance, in percent
MOTP(row) ==
    IF row.nmatch = 0 THEN Sentinel
    ELSE [n |-> 100 * (Scale * row.nmatch - row.dist), d |-> Scale * row.nmatch]

RECURSIVE RatSum(_)
RatSum(rs) ==
    IF rs = <<>> THEN [n |-> 0, d |-> 1]
    ELSE LET t == RatSum(Tail(rs))
         IN [n |-> Head(rs).n * t.d + t.n * Head(rs).d, d |-> Head(rs).d * t.d]

\* AVERAGE: the mean over the classes whose metric is not the sentinel
Average(rs) ==
    LET kept == SelectSeq(rs, LAMBDA r : r # Sentinel)
        sum == RatSum(kept)
    IN IF kept = <<>> THEN Sentinel ELSE [n |-> sum.n, d |-> sum.d * Len(kept)]

\* Only the first video's accumulators.
Flatten_FirstVideo(ss) == IF ss = <<>> THEN <<>> ELSE Head(ss)

\* All accumulators of the videos, class by class.
RECURSIVE Flatten(_)
Flatten(ss) == IF ss = <<>> THEN <<>> ELSE Head(ss) \o Flatten(Tail(ss))

\* aggregate_accs, evaluate_single_class and generate_results: one row per
\* leaf class, the AVERAGE of the class rows and the OVERALL row of the merge
\* of every accumulator.
generate_results(vaccs) ==
    LET rows == [i \in 1..num_classes |->
                    MergeAccs([v \in DOMAIN vaccs |-> vaccs[v][i]])]
        overall == MergeAccs(Flatten(vaccs))
    IN [rows |-> rows,
        mota |-> [i \in 1..num_classes |-> MOTA(rows[i])],
        motp |-> [i \in 1..num_classes |-> MOTP(rows[i])],
        AVERAGE |-> [mMOTA |-> Average([i \in 1..num_classes |-> MOTA(rows[i])]),
                     mMOTP |-> Average([i \in 1..num_classes |-> MOTP(rows[i])])],
        OVERALL |-> [FP |-> overall.FP, FN |-> overall.FN, IDSw |-> overall.IDSw,
                     GT |-> overall.GT, MOTA |-> MOTA(overall),
                     MOTP |-> MOTP(overall)]]

NoResult == generate_results(<<>>)

----------------------------------------------------------------------------
(* evaluate_seg_track and its per-video tasks *)

\* The iou_thr a task runs with: the pool's partial binds classes,
\* ignore_iof_thr, ignore_unknown_cats and image_size and leaves iou_thr at
\* the default of acc_single_video; the serial branch passes the caller's.
TaskIouThr(n, thr) == IF n > 1 THEN DefaultIouThr ELSE thr

NoTask == [gts |-> <<>>, results |-> <<>>, k |-> 0, accs |-> <<>>,
           iou_thr |-> 0, ignore_iof_thr |-> 0, ignore_unknown_cats |-> FALSE,
           image_size |-> None]

NoLast == [vi |-> 0, k |-> 0, key |-> 0, gt_labels |-> <<>>, pred_labels |-> <<>>,
           gtp |-> EmptyParse, prp |-> EmptyParse, parsed |-> 0,
           before |-> <<>>, cls |-> <<>>]

Fail(e) ==
    /\ pc' = "failed"
    /\ err' = e
    /\ UNCHANGED <<vi, video_accs, result>>

\* Lines 189-198: the video counts must agree.
Validate ==
    /\ pc = "start"
    /\ IF Len(gts) = Len(results)
       THEN /\ pc' = "videos"
            /\ UNCHANGED <<err, vi, video_accs, result>>
       ELSE Fail("AssertionError")
    /\ UNCHANGED <<inputs, task, last>>

\* acc_single_video_mots, lines 87-97: the call for video vi starts.
StartVideo ==
    /\ pc = "videos"
    /\ vi <= Len(gts)
    /\ IF Len(gts[vi]) = Len(results[vi])
       THEN /\ pc' = "frames"
            /\ task' = [gts |-> label_ids_to_int(SortedFrames(gts[vi])),
                        results |-> SortedFrames(results[vi]),
                        k |-> 1,
                        accs |-> [i \in 1..num_classes |-> EmptyAcc],
                        iou_thr |-> TaskIouThr(nproc, iou_thr),
                        ignore_iof_thr |-> ignore_iof_thr,
                        ignore_unknown_cats |-> ignore_unknown_cats,
                        image_size |-> image_size]
            /\ UNCHANGED <<err, vi, video_accs, result>>
       ELSE /\ Fail("AssertionError")
            /\ UNCHANGED task
    /\ UNCHANGED <<inputs, last>>

\* The sort keys compared: a missing frameIndex equals 0.
SameFrameIndex_ByKey(gt, res) == get_frame_index(gt) = get_frame_index(res)

\* Line 100: assert gt.frameIndex == result.frameIndex (None equals only None)
SameFrameIndex(gt, res) == gt.frameIndex = res.frameIndex

\* Lines 100-159: the body of the loop for one pair of frames.  err is the
\* exception it raises, parsed the number of parse_objects calls that returned
\* or raised, outs the possible outcomes, one entry per class each.
FrameStep(accs, gt, res, thr, iof_thr, ign_unknown, img_size) ==
    LET gtp == parse_objects(FrameLabels(gt), class_names, ign_unknown, img_size)
        prp == parse_objects(FrameLabels(res), class_names, ign_unknown, img_size)
    IN IF ~SameFrameIndex(gt, res)
       THEN [err |-> "AssertionError", parsed |-> 0, gtp |-> EmptyParse,
             prp |-> EmptyParse, outs |-> {}]
       ELSE IF gtp.err # "ok"
       THEN [err |-> gtp.err, parsed |-> 1, gtp |-> gtp, prp |-> EmptyParse,
             outs |-> {}]
       ELSE IF prp.err # "ok"
       THEN [err |-> prp.err, parsed |-> 2, gtp |-> gtp, prp |-> prp, outs |-> {}]
       ELSE [err |-> "ok", parsed |-> 2, gtp |-> gtp, prp |-> prp,
             outs |-> Product([i \in 1..num_classes |->
                                 ClassOutcomes(accs[i], i - 1, gtp, prp, thr,
                                               iof_thr, get_frame_index(gt))])]

\* Lines 99-159: one iteration of the loop over the paired frames.
ProcessFrame ==
    /\ pc = "frames"
    /\ task.k <= Len(task.gts)
    /\ LET gt == task.gts[task.k]
           res == task.results[task.k]
           step == FrameStep(task.accs, gt, res, task.iou_thr, task.ignore_iof_thr,
                             task.ignore_unknown_cats, task.image_size)
           seen(cls) ==
               [vi |-> vi, k |-> task.k, key |-> get_frame_index(gt),
                gt_labels |-> FrameLabels(gt), pred_labels |-> FrameLabels(res),
                gtp |-> step.gtp, prp |-> step.prp, parsed |-> step.parsed,
                before |-> task.accs, cls |-> cls]
       IN IF step.err # "ok"
          THEN /\ Fail(step.err)
               /\ last' = seen(<<>>)
               /\ UNCHANGED task
          ELSE \E outs \in step.outs :
                  /\ task' = [task EXCEPT
                                !.accs = [i \in 1..num_classes |-> outs[i].acc],
                                !.k = @ + 1]
                  /\ last' = seen([i \in 1..num_classes |-> outs[i].info])
                  /\ UNCHANGED <<pc, err, vi, video_accs, result>>
    /\ UNCHANGED inputs

\* Line 160 and the list of lines 199-223: the task returns its accumulators.
FinishVideo ==
    /\ pc = "frames"
    /\ task.k > Len(task.gts)
    /\ video_accs' = Append(video_accs, task.accs)
    /\ vi' = vi + 1
    /\ pc' = "videos"
    /\ UNCHANGED <<inputs, err, task, result, last>>

\* Lines 225-247: every task has returned; the tables are built.
Summarize ==
    /\ pc = "videos"
    /\ vi > Len(gts)
    /\ result' = generate_results(video_accs)
    /\ pc' = "done"
    /\ UNCHANGED <<inputs, err, vi, task, video_accs, last>>

Next == Validate \/ StartVideo \/ ProcessFrame \/ FinishVideo \/ Summarize

----------------------------------------------------------------------------
(* Inputs *)

Obj(id, cat, rle, poly2d, attr) ==
    [id |-> id, category |-> cat, rle |-> rle, poly2d |-> poly2d, attr |-> attr]

Frame(index, labels) == [frameIndex |-> index, labels |-> labels]

Start ==
    /\ pc = "start"
    /\ err = "none"
    /\ vi = 1
    /\ task = NoTask
    /\ video_accs = <<>>
    /\ result = NoResult
    /\ last = NoLast

\* Bounds of the inputs
MaxFrames == 3

MaxLabels == 2

MaxVideos == 2

\* All sequences over S of length at most n
RECURSIVE SeqsUpTo(_, _)
SeqsUpTo(S, n) ==
    IF n = 0 THEN {<<>>}
    ELSE LET shorter == SeqsUpTo(S, n - 1)
         IN shorter \cup {Append(q, x) : q \in shorter, x \in S}

IouThrs == {30, 50, 70}

Sizes == {None, "1280x720"}

\* (A) One frame, one class in play: ground truths, predictions and an ignore
\* region of every shape.
MasksA == {{1}, {1, 2}, {2, 3}, {1, 2, 3}}

GtLabelsA ==
    {<<>>}
    \cup {<<Obj(1, "car", a, NoMask, "none")>> : a \in MasksA}
    \cup {<<Obj(1, "car", a, NoMask, "none"), Obj(2, "car", b, NoMask, "none")>>
          : a \in MasksA, b \in MasksA}

IgnoreLabelsA ==
    {<<>>} \cup {<<Obj(3, "bus", a, NoMask, "crowd")>> : a \in {{1}, {2, 3}}}
           \cup {<<Obj(3, "car", a, NoMask, "ignored")>> : a \in {{3}, {1, 2, 3}}}

PredLabelsA ==
    {<<>>}
    \cup {<<Obj(10, "car", a, NoMask, "none")>> : a \in MasksA}
    \cup {<<Obj(10, "car", a, NoMask, "none"), Obj(11, "car", b, NoMask, "none")>>
          : a \in MasksA, b \in MasksA}

InitA ==
    /\ \E g \in GtLabelsA, ig \in IgnoreLabelsA, p \in PredLabelsA :
          /\ gts = << <<Frame(0, g \o ig)>> >>
          /\ results = << <<Frame(0, p)>> >>
    /\ iou_thr = 50
    /\ ignore_iof_thr = 50
    /\ ignore_unknown_cats = FALSE
    /\ image_size = None
    /\ nproc = 1

\* (B) One frame whose labels have a mask, a polygon or neither, and a known
\* or an unknown category.  A polygon may reach outside the image (pixel 0).
ObjectsB(id) ==
    {o \in {Obj(id, cat, rle, poly2d, "none")
            : cat \in {"car", "dog"},
              rle \in {NoMask, {1, 2}},
              poly2d \in {NoMask, {0, 1}}}
       : o.rle = NoMask \/ o.poly2d = NoMask}
    \cup {Obj(id, cat, {1, 2}, NoMask, "crowd") : cat \in {"car", "dog"}}

RECURSIVE LabelListsB(_)
LabelListsB(n) ==
    IF n = 0 THEN {<<>>}
    ELSE LET shorter == LabelListsB(n - 1)
         IN shorter \cup {Append(q, x) : q \in {r \in shorter : Len(r) = n - 1},
                                          x \in ObjectsB(n)}

PredLabelsB ==
    {<<>>, <<Obj(10, "car", {1}, NoMask, "none")>>,
     <<Obj(10, "car", {1}, NoMask, "none"), Obj(11, "dog", {2}, NoMask, "none")>>,
     <<Obj(10, "dog", NoMask, NoMask, "none")>>}

InitB ==
    /\ \E g \in LabelListsB(MaxLabels), p \in PredLabelsB :
          /\ gts = << <<Frame(0, g)>> >>
          /\ results = << <<Frame(0, p)>> >>
    /\ iou_thr = 50
    /\ ignore_iof_thr = 50
    /\ ignore_unknown_cats \in BOOLEAN
    /\ image_size \in Sizes
    /\ nproc = 1

\* (C) One video whose frames come in any order, with or without a frameIndex.
\* The frames of index 0 are empty; the others hold one object.
FrameC(index, id) ==
    Frame(index, IF index = 0 THEN <<>> ELSE <<Obj(id, "car", {1, 2}, NoMask, "none")>>)

IndicesC == {NoIndex, 0, 1}

InitC ==
    /\ \E gi \in SeqsUpTo(IndicesC, MaxFrames), ri \in SeqsUpTo(IndicesC, MaxFrames) :
          /\ gts = << [k \in DOMAIN gi |-> FrameC(gi[k], 1)] >>
          /\ results = << [k \in DOMAIN ri |-> FrameC(ri[k], 10)] >>
    /\ iou_thr = 50
    /\ ignore_iof_thr = 50
    /\ ignore_unknown_cats = FALSE
    /\ image_size = None
    /\ nproc = 1

\* (D) Any number of videos on each side.
VideosD == {<<>>, <<FrameC(1, 1)>>}

InitD ==
    /\ gts \in SeqsUpTo(VideosD, MaxVideos)
    /\ results \in SeqsUpTo(VideosD, MaxVideos)
    /\ iou_thr = 50
    /\ ignore_iof_thr = 50
    /\ ignore_unknown_cats = FALSE
    /\ image_size = None
    /\ nproc \in {1, 2}

\* (E) Videos of two frames with one tracked car, an optional bus, every
\* threshold and both the serial and the pooled branch.
MasksE == {{1}, {1, 2}, {1, 2, 3}, {3}}

GtVideosE ==
    {<<Frame(0, <<Obj(5, "car", {1, 2}, NoMask, "none")>> \o bus),
       Frame(1, <<Obj(5, "car", {1, 2}, NoMask, "none")>>)>>
     : bus \in {<<>>, <<Obj(6, "bus", {3}, NoMask, "none")>>}}

PredVideosE ==
    {<<Frame(0, <<Obj(10, "car", a, NoMask, "none")>> \o bus), Frame(1, second)>>
     : a \in MasksE,
       bus \in {<<>>, <<Obj(20, "bus", {3}, NoMask, "none")>>,
                <<Obj(20, "bus", {2, 3}, NoMask, "none")>>},
       second \in {<<>>} \cup {<<Obj(id, "car", b, NoMask, "none")>>
                               : id \in {10, 11}, b \in MasksE}}

MoreVideosE ==
    {<< <<Frame(0, <<Obj(7, "bus", {3}, NoMask, "none")>>)>>,
        <<Frame(0, p)>> >>
     : p \in {<<>>, <<Obj(30, "bus", {2, 3}, NoMask, "none")>>,
              <<Obj(30, "bus", {3}, NoMask, "none"),
                Obj(31, "car", {1}, NoMask, "none")>>}}

InitE ==
    /\ \E g \in GtVideosE, p \in PredVideosE :
          \/ gts = <<g>> /\ results = <<p>>
          \/ \E more \in MoreVideosE :
                gts = <<g, more[1]>> /\ results = <<p, more[2]>>
    /\ iou_thr \in IouThrs
    /\ ignore_iof_thr = 50
    /\ ignore_unknown_cats = FALSE
    /\ image_size = None
    /\ nproc \in {1, 2}

Init == Start /\ (InitA \/ InitB \/ InitC \/ InitD \/ InitE)

Spec == Init /\ [][Next]_vars

----------------------------------------------------------------------------
(* acc_single_video_mots as a function of its arguments: the lists of        *)
(* accumulators a call may return; none when it raises.                      *)

RECURSIVE RunFrames(_, _, _, _, _, _, _, _)
RunFrames(accs, gs, rs, k, thr, iof_thr, ign_unknown, img_size) ==
    IF k > Len(gs) THEN {accs}
    ELSE LET step == FrameStep(accs, gs[k], rs[k], thr, iof_thr, ign_unknown, img_size)
         IN UNION {RunFrames([i \in 1..num_classes |-> outs[i].acc], gs, rs, k + 1,
                             thr, iof_thr, ign_unknown, img_size)
                   : outs \in step.outs}

acc_single_video_mots(video_gts, video_results, thr, iof_thr, ign_unknown, img_size) ==
    IF Len(video_gts) # Len(video_results) THEN {}
    ELSE RunFrames([i \in 1..num_classes |-> EmptyAcc],
                   label_ids_to_int(SortedFrames(video_gts)),
                   SortedFrames(video_results), 1,
                   thr, iof_thr, ign_unknown, img_size)

----------------------------------------------------------------------------
(* Claims *)

\* C1: whatever the worker count, every task runs with the caller's iou_thr,
\* ignore_iof_thr, ignore_unknown_cats and image_size: the accumulators of
\* each video are ones the call with the caller's arguments returns.
C1_PoolEqualsSerial ==
    \A v \in DOMAIN video_accs :
        video_accs[v] \in acc_single_video_mots(gts[v], results[v], iou_thr,
                              ignore_iof_thr, ignore_unknown_cats, image_size)

\* What the claims say of a frame's labels, read off the labels themselves.
Masked(o) == o.rle # NoMask \/ o.poly2d # NoMask

MaskOf(o) == IF o.rle # NoMask THEN o.rle ELSE o.poly2d \cap Pixels

Known(o) == \E c \in DOMAIN class_names : class_names[c] = o.category

IsIgnoreRegion(o) == Masked(o) /\ Known(o) /\ o.attr # "none"

IoUAtLeast(a, b, thr) ==
    100 * Cardinality(a \cap b) >= thr * Cardinality(a \cup b)

OneMinusIoU(a, b) ==
    (Scale * (Cardinality(a \cup b) - Cardinality(a \cap b))) \div Cardinality(a \cup b)

IoFExceeds(p, ig, thr) ==
    100 * Cardinality(p \cap ig) > thr * Cardinality(p)

IgnoreRegions(labels) ==
    {MaskOf(labels[j]) : j \in {n \in DOMAIN labels : IsIgnoreRegion(labels[n])}}

\* The state right after an iteration of the frame loop that raised nothing.
AfterFrame ==
    /\ pc = "frames"
    /\ last.vi = vi
    /\ task.k = last.k + 1
    /\ last.cls # <<>>

\* C2: a class with no ground truth in the frame and no prediction left by
\* the ignore filter (none at all, or every one overlapping an ignore region
\* beyond the threshold) keeps its accumulator as it was.
C2_EmptyFrameLeavesAccumulator ==
    AfterFrame =>
      \A i \in 1..num_classes :
         LET c == last.cls[i]
         IN (/\ Len(c.gt_rles) = 0
             /\ \A n \in DOMAIN c.pred_rles :
                   \E ig \in IgnoreRegions(last.gt_labels) :
                      IoFExceeds(c.pred_rles[n], ig, task.ignore_iof_thr))
            => task.accs[i] = last.before[i]

\* C2 witness: every prediction of a class without ground truth was dropped
\* by the filter, and the accumulator was not touched.
C2_Witness ==
    /\ AfterFrame
    /\ \E i \in 1..num_classes :
          /\ Len(last.cls[i].gt_rles) = 0
          /\ Len(last.cls[i].pred_rles) = 2
          /\ last.cls[i].filtered
          /\ last.cls[i].passed_ids = <<>>
          /\ task.accs[i] = last.before[i]

\* C3: with an ignore region in the frame, a prediction is removed (its id and
\* its column are not passed to the accumulator) exactly when the assignment
\* gave it no ground truth at finite cost and its IoF with some ignore region
\* exceeds ignore_iof_thr; the assignment pairs only predictions and ground
\* truths whose IoU reaches iou_thr, one to one.
C3_RemovedIffUnassignedAndIgnored ==
    (AfterFrame /\ IgnoreRegions(last.gt_labels) # {}) =>
      \A i \in 1..num_classes :
         LET c == last.cls[i]
             assigned(n) == \E e \in c.assigned : e[2] = n
             removed(n) == \A b \in DOMAIN c.valid : c.valid[b] # n
         IN /\ \A n \in DOMAIN c.pred_rles :
                  removed(n) <=>
                     /\ ~assigned(n)
                     /\ \E ig \in IgnoreRegions(last.gt_labels) :
                           IoFExceeds(c.pred_rles[n], ig, task.ignore_iof_thr)
            /\ \A e \in c.assigned :
                  /\ e[1] \in DOMAIN c.gt_rles /\ e[2] \in DOMAIN c.pred_rles
                  /\ IoUAtLeast(c.gt_rles[e[1]], c.pred_rles[e[2]], task.iou_thr)
                  /\ \A f \in c.assigned : (f[1] = e[1] \/ f[2] = e[2]) => f = e
            /\ c.passed_ids = [b \in DOMAIN c.valid |-> c.pred_ids[c.valid[b]]]
            /\ c.dm.np = Len(c.valid)
            /\ \A b \in 1..(Len(c.valid) - 1) : c.valid[b] < c.valid[b + 1]

\* C3 witness: of two predictions overlapping the ignore region beyond the
\* threshold, the one assigned to the ground truth stays and the other goes.
C3_Witness ==
    /\ AfterFrame
    /\ \E i \in 1..num_classes :
          LET c == last.cls[i]
          IN /\ Len(c.pred_rles) = 2
             /\ Cardinality(c.assigned) = 1
             /\ Len(c.valid) = 1
             /\ \A n \in DOMAIN c.pred_rles :
                   \E ig \in IgnoreRegions(last.gt_labels) :
                      IoFExceeds(c.pred_rles[n], ig, task.ignore_iof_thr)

\* C8: the matrix given to the accumulator holds, for each ground truth and
\* each prediction passed on, 1 - IoU when IoU >= iou_thr and NaN otherwise;
\* and in a one-frame video a class with one ground truth and one prediction
\* whose IoU reaches iou_thr gets one match of distance 1 - IoU, no false
\* positive and no miss.
C8_CostMatrixAndSingleMatch ==
    AfterFrame =>
      \A i \in 1..num_classes :
         LET c == last.cls[i]
         IN /\ \A a \in DOMAIN c.gt_rles : \A b \in DOMAIN c.valid :
                  LET g == c.gt_rles[a]
                      p == c.pred_rles[c.valid[b]]
                  IN c.dm.d[<<a, b>>] =
                        IF IoUAtLeast(g, p, task.iou_thr) THEN OneMinusIoU(g, p)
                        ELSE NaN
            /\ (/\ Len(task.gts) = 1
                /\ Len(c.gt_rles) = 1 /\ Len(c.pred_rles) = 1
                /\ IoUAtLeast(c.gt_rles[1], c.pred_rles[1], task.iou_thr))
               => /\ task.accs[i].nmatch = 1
                  /\ task.accs[i].dist = OneMinusIoU(c.gt_rles[1], c.pred_rles[1])
                  /\ task.accs[i].fp = 0
                  /\ task.accs[i].miss = 0

\* C8 witness: a single pair whose IoU is exactly the threshold was matched.
C8_Witness ==
    /\ AfterFrame
    /\ Len(task.gts) = 1
    /\ \E i \in 1..num_classes :
          LET c == last.cls[i]
          IN /\ Len(c.gt_rles) = 1 /\ Len(c.pred_rles) = 1
             /\ 100 * Cardinality(c.gt_rles[1] \cap c.pred_rles[1])
                   = task.iou_thr * Cardinality(c.gt_rles[1] \cup c.pred_rles[1])
             /\ task.accs[i].nmatch = 1
             /\ task.accs[i].dist = Scale \div 2

\* What parse_objects was given and what it answered in the latest frame
\* iteration: the ground-truth labels, and the predicted ones when reached.
ParseCalls ==
    IF last.k = 0 \/ last.parsed = 0 THEN {}
    ELSE {[labels |-> last.gt_labels, out |-> last.gtp]}
         \cup (IF last.parsed = 2
               THEN {[labels |-> last.pred_labels, out |-> last.prp]} ELSE {})

UnknownAt(labels) == {j \in DOMAIN labels : ~Known(labels[j])}

\* The objects that fail the ImageSize assertion: a polygon, no rle, no size.
NeedsSizeAt(labels) ==
    {j \in DOMAIN labels : /\ labels[j].rle = NoMask
                           /\ labels[j].poly2d # NoMask
                           /\ task.image_size = None}

\* C4 as stated: with ignore_unknown_cats false, every object of unknown
\* category makes parse_objects fail with the unknown-category error; with
\* it true, such an object is dropped from every output.
C4_UnknownCategoryAlwaysFails ==
    \A call \in ParseCalls :
       /\ (~task.ignore_unknown_cats /\ UnknownAt(call.labels) # {}
             /\ NeedsSizeAt(call.labels) = {})
          => call.out.err = "KeyError"
       /\ task.ignore_unknown_cats => call.out.err # "KeyError"

\* C4 amended: parse_objects skips an object with neither rle nor poly2d
\* before it looks at its category.  It fails with the unknown-category error
\* exactly when ignore_unknown_cats is false and the first object that stops
\* it is one with a mask and an unknown category (a polygon-only object without
\* image_size stops it with the ImageSize assertion); it succeeds when no
\* object stops it, and then the detections and ids are those of the known,
\* masked, non-crowd objects in order and the ignore regions those of the
\* known, masked crowd or ignored ones: an unknown-category object is in none.
C4_MaskedUnknownCategoryFails ==
    \A call \in ParseCalls :
       LET labels == call.labels
           out == call.out
           stops == NeedsSizeAt(labels)
                    \cup (IF task.ignore_unknown_cats THEN {}
                          ELSE {j \in UnknownAt(labels) : Masked(labels[j])})
           first == CHOOSE j \in stops : \A n \in stops : j <= n
           dets == SelectSeq(labels, LAMBDA o : Masked(o) /\ Known(o) /\ o.attr = "none")
           igns == SelectSeq(labels, LAMBDA o : IsIgnoreRegion(o))
       IN /\ (out.err = "ok") <=> (stops = {})
          /\ (out.err = "KeyError") <=> (stops # {} /\ first \notin NeedsSizeAt(labels))
          /\ (out.err = "AssertionError") <=> (stops # {} /\ first \in NeedsSizeAt(labels))
          /\ out.err = "ok" =>
                /\ out.ids = [n \in DOMAIN dets |-> dets[n].id]
                /\ out.rles = [n \in DOMAIN dets |-> MaskOf(dets[n])]
                /\ out.labels = [n \in DOMAIN dets |->
                                   ClassIndex(class_names, dets[n].category)]
                /\ out.ignore_rles = [n \in DOMAIN igns |-> MaskOf(igns[n])]

\* C4 witness: an object of unknown category without a mask was parsed with
\* ignore_unknown_cats false, and parse_objects returned the other object.
C4_Witness ==
    \E call \in ParseCalls :
       /\ ~task.ignore_unknown_cats
       /\ \E j \in UnknownAt(call.labels) : ~Masked(call.labels[j])
       /\ call.out.err = "ok"
       /\ Len(call.out.ids) = 1

\* The frameIndex values of a video in the order the frames are paired in:
\* by ascending key (a missing index counts as 0), frames of equal key in
\* the order given.
KeyOf(index) == IF index = NoIndex THEN 0 ELSE index

RECURSIVE OrderedFrom(_, _)
OrderedFrom(indices, key) ==
    IF \A n \in DOMAIN indices : KeyOf(indices[n]) < key THEN <<>>
    ELSE SelectSeq(indices, LAMBDA x : KeyOf(x) = key) \o OrderedFrom(indices, key + 1)

OrderedIndices(video) ==
    OrderedFrom([n \in DOMAIN video |-> video[n].frameIndex], 0)

Aligned ==
    /\ Len(gts) = Len(results)
    /\ \A v \in DOMAIN gts : OrderedIndices(gts[v]) = OrderedIndices(results[v])

VideoAligned(v) == OrderedIndices(gts[v]) = OrderedIndices(results[v])

C9_SwitchCountedOnce ==
    (AfterFrame /\ last.k >= 2) =>
      \A i \in 1..num_classes :
         LET dets(frame) ==
                 SelectSeq(FrameLabels(frame),
                           LAMBDA o : /\ Masked(o) /\ o.attr = "none"
                                      /\ o.category = class_names[i])
             g1 == dets(task.gts[last.k - 1])
             p1 == dets(task.results[last.k - 1])
             g2 == dets(task.gts[last.k])
             p2 == dets(task.results[last.k])
         IN (/\ Len(g1) = 1 /\ Len(p1) = 1 /\ Len(g2) = 1 /\ Len(p2) = 1
             /\ g1[1].id = g2[1].id
             /\ p1[1].id # p2[1].id
             /\ IoUAtLeast(MaskOf(g1[1]), MaskOf(p1[1]), task.iou_thr)
             /\ IoUAtLeast(MaskOf(g2[1]), MaskOf(p2[1]), task.iou_thr))
            => /\ task.accs[i].switch = last.before[i].switch + 1
               /\ task.accs[i].miss = last.before[i].miss
               /\ task.accs[i].fp = last.before[i].fp
               /\ task.accs[i].nmatch = last.before[i].nmatch + 1

\* C9 witness: the second frame of a video added a switch and nothing else.
C9_Witness ==
    /\ AfterFrame
    /\ last.k = 2
    /\ \E i \in 1..num_classes :
          /\ last.before[i].nmatch = 1
          /\ task.accs[i].nmatch = 2
          /\ task.accs[i].switch = 1
          /\ task.accs[i].miss = 0
          /\ task.accs[i].fp = 0

NonDecreasing(s) == \A n \in 1..(Len(s) - 1) : s[n] <= s[n + 1]

Count(s, x) == Cardinality({n \in DOMAIN s : s[n] = x})

\* C10: in a running task the frames are paired in ascending frameIndex (a
\* missing one as 0) whatever order they came in, the k-th of the one side
\* with the k-th of the other; each class's accumulator has been given the
\* frames in that order, at most one update for each pair gone through.
C10_UpdatesInFrameOrder ==
    pc = "frames" =>
      /\ [n \in DOMAIN task.gts |-> task.gts[n].frameIndex] = OrderedIndices(gts[vi])
      /\ [n \in DOMAIN task.results |-> task.results[n].frameIndex]
            = OrderedIndices(results[vi])
      /\ \A f \in Range(results[vi]) \cup Range(task.results) :
            Count(task.results, f) = Count(results[vi], f)
      /\ \A i \in 1..num_classes :
            LET given == task.accs[i].frames
            IN /\ NonDecreasing(given)
               /\ Len(given) <= task.k - 1
               /\ \A key \in Range(given) :
                     Count(given, key)
                        <= Cardinality({n \in 1..(task.k - 1) :
                                          KeyOf(task.gts[n].frameIndex) = key})
      /\ last.k > 0 /\ last.vi = vi /\ last.parsed = 2 =>
            /\ last.pred_labels = FrameLabels(task.results[last.k])
            /\ last.key = KeyOf(OrderedIndices(gts[vi])[last.k])

\* C10 witness: the frames came in descending order and the accumulator of a
\* class was given them in ascending order.
C10_Witness ==
    /\ pc = "frames"
    /\ Len(gts[vi]) = 2
    /\ KeyOf(gts[vi][1].frameIndex) > KeyOf(gts[vi][2].frameIndex)
    /\ gts[vi][2].frameIndex = NoIndex
    /\ \E i \in 1..num_classes : task.accs[i].frames = <<0, 1>>

\* C7: the OVERALL row comes from the merged counts of all leaf classes and
\* videos: its FP, FN and IDSw are the sums of the class rows' and its MOTA
\* is 1 - (FN + FP + IDSw) / total GT of the merge, in percent.
C7_OverallFromMergedCounts ==
    pc = "done" =>
      LET sum(field(_)) == SeqSum([i \in 1..num_classes |-> field(result.rows[i])])
          fp(r) == r.FP
          fn(r) == r.FN
          sw(r) == r.IDSw
          gt(r) == r.GT
          all == result.OVERALL
      IN /\ all.FP = sum(fp) /\ all.FN = sum(fn) /\ all.IDSw = sum(sw)
         /\ all.GT = sum(gt)
         /\ all.FP = SeqSum([v \in DOMAIN video_accs |->
                               SeqSum([i \in 1..num_classes |-> video_accs[v][i].fp])])
         /\ all.GT > 0 =>
               /\ all.MOTA.d > 0
               /\ all.MOTA.n * all.GT
                    = 100 * (all.GT - (all.FN + all.FP + all.IDSw)) * all.MOTA.d

\* C7 witness: every class has ground truth and the OVERALL MOTA is not the
\* mean of the class MOTAs.
C7_Witness ==
    /\ pc = "done"
    /\ \A i \in 1..num_classes : result.rows[i].GT > 0
    /\ ~RatEq(result.OVERALL.MOTA, result.AVERAGE.mMOTA)

====
